---- MODULE Spec2Model ----
(***************************************************************************)
(* A model of weights_to_firmware: quad_gen/gaussian_mlp.py (generate,     *)
(* which turns a policy's tensors into the text of network_evaluate.c) and *)
(* quad_gen/get_models.py (save_result, traverse_root).                    *)
(*                                                                         *)
(* Text is modelled as a sequence of tokens, one per emitted piece of the  *)
(* C source; a Python s[:-1] drops the last token, which is always a       *)
(* one-character token where the code applies it to the structure string.  *)
(* The numeric literals of an array are not spelled out: a weight or bias  *)
(* token names the tensor (its index in trainable_evals) whose values fill *)
(* it, and its declared dimensions.                                        *)
(***************************************************************************)
EXTENDS Integers, Sequences, FiniteSets, TLC

VARIABLES
    entry,             \* which function was called: "generate", "save_result"
    pc,                \* position in the running call
    err,               \* "" or the exception that ended the call
    policy,            \* generate's argument policy
    output_path,       \* generate's argument output_path ("" is None)
    trainable_shapes,  \* gaussian_mlp.py:31/53
    n_layers,          \* gaussian_mlp.py:63
    n,                 \* loop index of gaussian_mlp.py:72, then n of line 148
    n_weight,          \* gaussian_mlp.py:70
    n_bias,            \* gaussian_mlp.py:71
    weights,           \* gaussian_mlp.py:64
    biases,            \* gaussian_mlp.py:65
    outputs,           \* gaussian_mlp.py:66
    structure,         \* gaussian_mlp.py:68
    for_loops,         \* gaussian_mlp.py:119
    controller_eval,   \* gaussian_mlp.py:170
    source,            \* gaussian_mlp.py:184
    result,            \* the text generate returned (<<>> before it returns)
    fs,                \* the output directory: file name -> state
    fs0,               \* the output directory as it was before the call
    pkl,               \* what model_dir/params.pkl holds (save_result)
    call_no,           \* how many calls of generate have been started
    first,             \* the policy and text of the first completed call
    tree,              \* parent of every directory below root (traverse_root)
    has_pkl,           \* the directories that directly hold a params.pkl
    stack,             \* traverse_root's recursion: frames of unvisited subdirs
    calls              \* the directories save_result was called for, in order

genvars == <<policy, output_path, trainable_shapes, n_layers, n, n_weight, n_bias,
             weights, biases, outputs, structure, for_loops, controller_eval,
             source, result>>
travvars == <<tree, has_pkl, stack, calls>>
vars == <<entry, pc, err, genvars, fs, fs0, pkl, call_no, first, travvars>>

----------------------------------------------------------------------------
(* Bounds of the model and constants of the program *)

\* the longest parameter list get_params() returns in Spec
MaxTensors == 7
\* the number of control channels the assignment block copies
NumControls == 4
\* the width of every Flax layer of the model
FlaxWidth == 3
\* the longest parameter list of a policy stored in params.pkl in SpecSave
MaxSaveTensors == 4
\* the longest parameter list in SpecRepeat, and the calls of generate there
MaxRepeatTensors == 3
MaxCalls == 3
\* the directories below root_dir in SpecTraverse
MaxDirs == 4

Dims == {1, NumControls}
\* rank-1 shapes (d,) and rank-2 shapes (in_dim, out_dim)
Shapes == {<<d>> : d \in Dims} \cup {<<NumControls, d>> : d \in Dims}

SeqsUpTo(S, k) == UNION {[1..j -> S] : j \in 0..k}

\* the layer groups generate looks for
LayerNames == <<"hidden_0", "hidden_1", "hidden_2", "hidden_3", "hidden_4">>

----------------------------------------------------------------------------
(* The policies generate is called with *)

\* an object with get_params(): the ordered list of its tensors' shapes
TFPolicy(list) == [kind |-> "tf", params |-> list, tree |-> <<>>]
\* a dict-like object (Flax parameters): tree maps keys to sub-trees
FlaxPolicy(t) == [kind |-> "flax", params |-> <<>>, tree |-> t]
\* an object with neither get() nor get_params()
OpaquePolicy == [kind |-> "opaque", params |-> <<>>, tree |-> <<>>]

\* a layer group holds any of "kernel" and "bias"
FlaxLayer(D) ==
    [x \in D |-> IF x = "kernel" THEN <<FlaxWidth, FlaxWidth>> ELSE <<FlaxWidth>>]
FlaxLayers == {FlaxLayer(D) : D \in SUBSET {"kernel", "bias"}}
NameSet == {LayerNames[i] : i \in 1..Len(LayerNames)}
FlaxParams == UNION {[N -> FlaxLayers] : N \in SUBSET NameSet}
FlaxTrees == {<<>>} \cup {[x \in {"params"} |-> p] : p \in FlaxParams}

TFPolicies(k) == {TFPolicy(l) : l \in SeqsUpTo(Shapes, k)}
FlaxPolicies == {FlaxPolicy(t) : t \in FlaxTrees}

----------------------------------------------------------------------------
(* gaussian_mlp.py: the pieces of text generate emits *)

\* int(x/2): Python's int() truncates toward zero
HalfTrunc(x) == IF x >= 0 THEN x \div 2 ELSE -((-x) \div 2)

Preamble ==
    <<[k |-> "headers_network_evaluate"], [k |-> "linear_activation"],
      [k |-> "sigmoid_activation"], [k |-> "relu_activation"]>>

\* static const int structure[dim][2] = {
StructureOpen(dim) == <<[k |-> "structure_decl", dim |-> dim], [k |-> "{"]>>
\* {in, out},
StructureRow(shape) == <<[k |-> "row", in |-> shape[1], out |-> shape[2]], [k |-> ","]>>
\* structure[:-1] and then };
StructureClose(s) == SubSeq(s, 1, Len(s) - 1) \o <<[k |-> "};"]>>

\* static const float layer_i_weight[d0][d1] = {{...},...};
WeightText(i, shape, t) == [k |-> "weight", idx |-> i, dims |-> shape, tensor |-> t]
\* static const float layer_i_bias[d] = {...};
BiasText(i, shape, t) == [k |-> "bias", idx |-> i, dims |-> shape, tensor |-> t]
\* static float output_i[d];
OutputText(i, shape) == [k |-> "output", idx |-> i, dims |-> shape]

\* one affine block: output_layer from input through layer_layer_weight and
\* layer_layer_bias, bounds structure[layer]; tanh says whether tanhf is applied
StateInput == <<"state_array">>
BufferInput(i) == <<"output", i>>
LoopText(layer, input, tanh) ==
    [k |-> "loop", layer |-> layer, input |-> input, tanh |-> tanh]

input_for_loop == LoopText(0, StateInput, TRUE)
HiddenForLoop(i) == LoopText(i, BufferInput(i - 1), TRUE)
OutputForLoop(i) == LoopText(i, BufferInput(i - 1), FALSE)

\* range(a, b)
Range(a, b) == IF b > a THEN [i \in 1..(b - a) |-> a + i - 1] ELSE <<>>

ForLoops(layers) ==
    <<input_for_loop>>
    \o [i \in 1..Len(Range(1, HalfTrunc(layers) - 1)) |->
            HiddenForLoop(Range(1, HalfTrunc(layers) - 1)[i])]
    \o <<OutputForLoop(HalfTrunc(layers) - 1)>>

\* control_n[i] = output_last[i]; for the four channels
Assignment(last) ==
    [i \in 1..NumControls |-> [k |-> "assign", channel |-> i - 1, from |-> last]]

ControllerEval(loops, last) ==
    <<[k |-> "networkEvaluate{"]>> \o loops \o Assignment(last) \o <<[k |-> "}"]>>

Assemble(struct, outs, ws, bs, eval) ==
    Preamble \o struct \o outs \o ws \o bs \o eval

\* the shapes the Flax branch collects, layer groups i..5 of the tree
RECURSIVE FlaxShapesFrom(_, _)
FlaxShapesFrom(params, i) ==
    IF i > Len(LayerNames) THEN <<>>
    ELSE LET name == LayerNames[i]
             here == IF name \in DOMAIN params
                     THEN (IF "kernel" \in DOMAIN params[name]
                           THEN <<params[name]["kernel"]>> ELSE <<>>)
                          \o (IF "bias" \in DOMAIN params[name]
                              THEN <<params[name]["bias"]>> ELSE <<>>)
                     ELSE <<>>
         IN here \o FlaxShapesFrom(params, i + 1)

FlaxShapes(t) ==
    IF "params" \in DOMAIN t THEN FlaxShapesFrom(t["params"], 1) ELSE <<>>


----------------------------------------------------------------------------
(* gaussian_mlp.py: generate, one action per stretch of its body *)

OutFile == "network_evaluate.c"
PklFile == "params.pkl"
FileNames == {PklFile, OutFile}

\* lines 28-49: a dict-like policy; groups or entries that are absent are skipped
GenExtractFlax ==
    /\ pc = "extract"
    /\ policy.kind = "flax"
    /\ trainable_shapes' = FlaxShapes(policy.tree)
    /\ pc' = "init"
    /\ UNCHANGED <<entry, err, policy, output_path, n_layers, n, n_weight, n_bias,
                   weights, biases, outputs, structure, for_loops, controller_eval,
                   source, result, fs, fs0, pkl, call_no, first, travvars>>

\* lines 50-57: the shapes of policy.get_params(), in order
GenExtractTF ==
    /\ pc = "extract"
    /\ policy.kind = "tf"
    /\ trainable_shapes' = policy.params
    /\ pc' = "init"
    /\ UNCHANGED <<entry, err, policy, output_path, n_layers, n, n_weight, n_bias,
                   weights, biases, outputs, structure, for_loops, controller_eval,
                   source, result, fs, fs0, pkl, call_no, first, travvars>>

\* line 52 on an object without get_params
GenExtractRaise ==
    /\ pc = "extract"
    /\ policy.kind = "opaque"
    /\ err' = "AttributeError"
    /\ pc' = "raised"
    /\ UNCHANGED <<entry, genvars, fs, fs0, pkl, call_no, first, travvars>>

\* lines 63-71 with n_weight and n_bias kept from the call before, as counters
\* at module level would be
GenInitStale ==
    /\ pc = "init"
    /\ n_layers' = Len(trainable_shapes) - 1
    /\ weights' = <<>>
    /\ biases' = <<>>
    /\ outputs' = <<>>
    /\ structure' = StructureOpen(HalfTrunc(Len(trainable_shapes) - 1))
    /\ n' = 0
    /\ pc' = "layers"
    /\ UNCHANGED <<entry, err, policy, output_path, trainable_shapes, n_weight, n_bias,
                   for_loops, controller_eval, source, result, fs, fs0, pkl, call_no,
                   first, travvars>>

\* lines 63-71
GenInit ==
    /\ pc = "init"
    /\ n_layers' = Len(trainable_shapes) - 1
    /\ weights' = <<>>
    /\ biases' = <<>>
    /\ outputs' = <<>>
    /\ structure' = StructureOpen(HalfTrunc(Len(trainable_shapes) - 1))
    /\ n_weight' = 0
    /\ n_bias' = 0
    /\ n' = 0
    /\ pc' = "layers"
    /\ UNCHANGED <<entry, err, policy, output_path, trainable_shapes, for_loops,
                   controller_eval, source, result, fs, fs0, pkl, call_no, first,
                   travvars>>

\* lines 72-108: one iteration of for n in range(n_layers)
GenLayer ==
    /\ pc = "layers"
    /\ n < n_layers
    /\ LET shape == trainable_shapes[n + 1] IN
         IF Len(shape) = 2
         THEN /\ weights' = Append(weights, WeightText(n_weight, shape, n))
              /\ n_weight' = n_weight + 1
              /\ structure' = structure \o StructureRow(shape)
              /\ UNCHANGED <<biases, outputs, n_bias>>
         ELSE IF Len(shape) = 1
         THEN /\ biases' = Append(biases, BiasText(n_bias, shape, n))
              /\ outputs' = Append(outputs, OutputText(n_bias, shape))
              /\ n_bias' = n_bias + 1
              /\ UNCHANGED <<weights, n_weight, structure>>
         ELSE UNCHANGED <<weights, n_weight, structure, biases, outputs, n_bias>>
    /\ n' = n + 1
    /\ UNCHANGED <<entry, pc, err, policy, output_path, trainable_shapes, n_layers,
                   for_loops, controller_eval, source, result, fs, fs0, pkl, call_no,
                   first, travvars>>

\* lines 110-113, after the loop
GenStructure ==
    /\ pc = "layers"
    /\ n >= n_layers
    /\ structure' = StructureClose(structure)
    /\ pc' = "for_loops"
    /\ UNCHANGED <<entry, err, policy, output_path, trainable_shapes, n_layers, n,
                   n_weight, n_bias, weights, biases, outputs, for_loops,
                   controller_eval, source, result, fs, fs0, pkl, call_no, first,
                   travvars>>

\* lines 119-159
GenForLoops ==
    /\ pc = "for_loops"
    /\ for_loops' = ForLoops(n_layers)
    /\ n' = HalfTrunc(n_layers) - 1
    /\ pc' = "controller_eval"
    /\ UNCHANGED <<entry, err, policy, output_path, trainable_shapes, n_layers,
                   n_weight, n_bias, weights, biases, outputs, structure,
                   controller_eval, source, result, fs, fs0, pkl, call_no, first,
                   travvars>>

\* lines 161-181
GenControllerEval ==
    /\ pc = "controller_eval"
    /\ controller_eval' = ControllerEval(for_loops, n)
    /\ pc' = "assemble"
    /\ UNCHANGED <<entry, err, policy, output_path, trainable_shapes, n_layers, n,
                   n_weight, n_bias, weights, biases, outputs, structure, for_loops,
                   source, result, fs, fs0, pkl, call_no, first, travvars>>

\* lines 183-199
GenAssemble ==
    /\ pc = "assemble"
    /\ source' = Assemble(structure, outputs, weights, biases, controller_eval)
    /\ pc' = "write"
    /\ UNCHANGED <<entry, err, policy, output_path, trainable_shapes, n_layers, n,
                   n_weight, n_bias, weights, biases, outputs, structure, for_loops,
                   controller_eval, result, fs, fs0, pkl, call_no, first, travvars>>

\* line 204 with output_path None
GenNoPath ==
    /\ pc = "write"
    /\ output_path = ""
    /\ pc' = "return"
    /\ UNCHANGED <<entry, err, genvars, fs, fs0, pkl, call_no, first, travvars>>

\* line 205: open(output_path, 'w') creates or truncates the file
GenOpen ==
    /\ pc = "write"
    /\ output_path # ""
    /\ fs' = [fs EXCEPT ![output_path] = "partial"]
    /\ pc' = "opened"
    /\ UNCHANGED <<entry, err, genvars, fs0, pkl, call_no, first, travvars>>

\* line 205 when the file cannot be opened
GenOpenRaise ==
    /\ pc = "write"
    /\ output_path # ""
    /\ err' = "OSError"
    /\ pc' = "raised"
    /\ UNCHANGED <<entry, genvars, fs, fs0, pkl, call_no, first, travvars>>

\* line 206 and the close at the end of the with block
GenWrite ==
    /\ pc = "opened"
    /\ fs' = [fs EXCEPT ![output_path] = "complete"]
    /\ pc' = "return"
    /\ UNCHANGED <<entry, err, genvars, fs0, pkl, call_no, first, travvars>>

\* line 206 when the write fails: the with block closes the truncated file
GenWriteRaise ==
    /\ pc = "opened"
    /\ err' = "OSError"
    /\ pc' = "raised"
    /\ UNCHANGED <<entry, genvars, fs, fs0, pkl, call_no, first, travvars>>

\* line 208
GenReturn ==
    /\ pc = "return"
    /\ result' = source
    /\ first' = IF first = <<>> THEN <<[policy |-> policy, text |-> source]>> ELSE first
    /\ pc' = IF entry = "save_result" THEN "print" ELSE "done"
    /\ UNCHANGED <<entry, err, policy, output_path, trainable_shapes, n_layers, n,
                   n_weight, n_bias, weights, biases, outputs, structure, for_loops,
                   controller_eval, source, fs, fs0, pkl, call_no, travvars>>

Generate ==
    \/ GenExtractFlax \/ GenExtractTF \/ GenExtractRaise
    \/ GenInit \/ GenLayer \/ GenStructure \/ GenForLoops \/ GenControllerEval
    \/ GenAssemble \/ GenNoPath \/ GenOpen \/ GenOpenRaise \/ GenWrite
    \/ GenWriteRaise \/ GenReturn

\* no params.pkl is involved
NoPkl == [form |-> "none", policy |-> OpaquePolicy]

\* nothing is bound and nothing has run
NoLocals ==
    /\ trainable_shapes = <<>> /\ n_layers = 0 /\ n = 0 /\ n_weight = 0 /\ n_bias = 0
    /\ weights = <<>> /\ biases = <<>> /\ outputs = <<>> /\ structure = <<>>
    /\ for_loops = <<>> /\ controller_eval = <<>> /\ source = <<>> /\ result = <<>>

NoTraverse == tree = <<>> /\ has_pkl = {} /\ stack = <<>> /\ calls = <<>>

\* the output directory before a call of generate: the target may be there
InitGenerate ==
    /\ entry = "generate"
    /\ pc = "extract"
    /\ err = ""
    /\ policy \in TFPolicies(MaxTensors) \cup FlaxPolicies \cup {OpaquePolicy}
    /\ output_path \in {"", OutFile}
    /\ fs0 \in {f \in [FileNames -> {"absent", "old"}] :
                   /\ f[PklFile] = "absent"
                   /\ output_path = "" => f[OutFile] = "absent"}
    /\ fs = fs0
    /\ pkl = NoPkl
    /\ call_no = 1
    /\ first = <<>>
    /\ NoLocals
    /\ NoTraverse

Init == InitGenerate
Next == Generate
Spec == Init /\ [][Next]_vars

----------------------------------------------------------------------------
(* What the claims speak of *)

Rank(shape) == Len(shape)

\* weight/bias pairs, rank 2 then rank 1 of the weight's out_dim, the last pair
\* being the reserved std pair, and at least one real layer before it
ValidList(l) ==
    /\ Len(l) % 2 = 0
    /\ Len(l) >= 4
    /\ \A i \in 1..Len(l) :
          IF i % 2 = 1 THEN Rank(l[i]) = 2
          ELSE Rank(l[i]) = 1 /\ l[i][1] = l[i - 1][2]

\* the number of real layers of a valid list
RealLayers(l) == (Len(l) \div 2) - 1

\* the weight tensor of real layer i (from 0) of a valid list
WeightOf(l, i) == l[2 * i + 1]

Tokens(text, kind) == SelectSeq(text, LAMBDA t : t.k = kind)

\* generate has returned its text
Returned == pc = "done" /\ entry = "generate" /\ err = ""

\* C1: for every valid tensor list with L real layers the structure table of
\* the returned text has exactly L rows, and row i is the (in_dim, out_dim) of
\* the i-th weight tensor.
C1_StructureRows ==
    (Returned /\ ValidList(trainable_shapes)) =>
        LET rows == Tokens(result, "row")
            L == RealLayers(trainable_shapes)
        IN /\ Len(rows) = L
           /\ \A i \in 0..(L - 1) :
                 /\ i + 1 <= Len(rows)
                 /\ rows[i + 1].in = WeightOf(trainable_shapes, i)[1]
                 /\ rows[i + 1].out = WeightOf(trainable_shapes, i)[2]

\* C2: for every valid tensor list with R >= 1 real layers, the routine applies
\* tanhf in the block of every real layer below R-1 and in no block of layer
\* R-1; with R = 1 there is no tanhf at all.
C2_TanhAllButLast ==
    (Returned /\ ValidList(trainable_shapes)) =>
        LET loops == Tokens(result, "loop")
            R == RealLayers(trainable_shapes)
        IN /\ \A i \in 0..(R - 2) :
                 \E j \in 1..Len(loops) : loops[j].layer = i /\ loops[j].tanh
           /\ \A j \in 1..Len(loops) : loops[j].layer = R - 1 => ~loops[j].tanh
           /\ R = 1 => \A j \in 1..Len(loops) : ~loops[j].tanh

\* C3: for every valid tensor list with R >= 1 real layers, the routine holds
\* exactly one affine block per real layer, in the order 0..R-1; block 0 reads
\* the state vector and block i > 0 reads output_(i-1), never a buffer below 0.
C3_OneBlockPerLayer ==
    (Returned /\ ValidList(trainable_shapes)) =>
        LET loops == Tokens(result, "loop")
            R == RealLayers(trainable_shapes)
        IN /\ Len(loops) = R
           /\ \A j \in 1..Len(loops) :
                 /\ loops[j].layer = j - 1
                 /\ loops[j].input = IF j = 1 THEN StateInput ELSE BufferInput(j - 2)

\* C4: for every valid tensor list, the last step of the routine copies exactly
\* d elements, indices 0..d-1, of the last real layer's output buffer into the
\* control vector, d being that layer's output dimension.
C4_CopiesOutDim ==
    (Returned /\ ValidList(trainable_shapes)) =>
        LET copies == Tokens(result, "assign")
            R == RealLayers(trainable_shapes)
            d == WeightOf(trainable_shapes, R - 1)[2]
        IN /\ Len(copies) = d
           /\ \A j \in 1..Len(copies) :
                 /\ copies[j].channel = j - 1
                 /\ copies[j].channel < d
                 /\ copies[j].from = R - 1

\* an odd number of tensors, a rank-2 tensor right after a rank-2 tensor, or
\* fewer than two rank-1 tensors
BadTopology(l) ==
    \/ Len(l) % 2 = 1
    \/ \E i \in 1..(Len(l) - 1) : Rank(l[i]) = 2 /\ Rank(l[i + 1]) = 2
    \/ Cardinality({i \in 1..Len(l) : Rank(l[i]) = 1}) < 2

\* the call has got past parameter extraction
Extracted == pc \notin {"extract", "raised"} \/ (pc = "raised" /\ err # "AttributeError")

\* C5: generate with an output path on a tensor list of bad topology ends in
\* InvalidTopology, returns no text and leaves the output directory as it was.
C5_InvalidTopologyRaises ==
    (entry = "generate" /\ output_path # "" /\ Extracted
        /\ BadTopology(trainable_shapes)) =>
        /\ pc # "done"
        /\ result = <<>>
        /\ fs = fs0
        /\ pc = "raised" => err = "InvalidTopology"

\* the stored policy lacks 'params', or a layer group lacks 'kernel' or 'bias'
MissingField(t) ==
    \/ "params" \notin DOMAIN t
    \/ \E name \in DOMAIN t["params"] :
          \/ "kernel" \notin DOMAIN t["params"][name]
          \/ "bias" \notin DOMAIN t["params"][name]

\* C6: with a field missing from the stored policy, extraction signals
\* MalformedPolicy and generate never goes on with the tensors it did find.
C6_MalformedPolicyRaises ==
    (entry = "generate" /\ policy.kind = "flax" /\ MissingField(policy.tree)) =>
        /\ pc \in {"extract", "raised"}
        /\ pc = "raised" => err = "MalformedPolicy"

\* the place of a token in the fixed order of the text
Section(t) ==
    CASE t.k \in {"headers_network_evaluate", "linear_activation",
                  "sigmoid_activation", "relu_activation"} -> 1
      [] t.k \in {"structure_decl", "{", "row", ",", "};"} -> 2
      [] t.k = "output" -> 3
      [] t.k = "weight" -> 4
      [] t.k = "bias" -> 5
      [] OTHER -> 6

\* the text declares an array of this kind and index before position j
DeclaredBefore(text, kind, idx, j) ==
    \E i \in 1..(j - 1) : text[i].k = kind /\ text[i].idx = idx

\* the text declares structure with more than idx rows before position j
StructureBefore(text, idx, j) ==
    \E i \in 1..(j - 1) :
        text[i].k = "structure_decl" /\ 0 <= idx /\ idx < text[i].dim

\* C10: the returned text is preamble, structure table, output buffers, weight
\* arrays, bias arrays, routine, in that order, and so every name the routine
\* refers to is declared before the place that refers to it.
C10_DeclaredBeforeUse ==
    (Returned /\ ValidList(trainable_shapes)) =>
        /\ \A i, j \in 1..Len(result) :
              i < j => Section(result[i]) <= Section(result[j])
        /\ \A j \in 1..Len(result) :
              /\ result[j].k = "loop" =>
                    /\ StructureBefore(result, result[j].layer, j)
                    /\ DeclaredBefore(result, "output", result[j].layer, j)
                    /\ DeclaredBefore(result, "weight", result[j].layer, j)
                    /\ DeclaredBefore(result, "bias", result[j].layer, j)
                    /\ result[j].input # StateInput =>
                          DeclaredBefore(result, "output", result[j].input[2], j)
              /\ result[j].k = "assign" =>
                    DeclaredBefore(result, "output", result[j].from, j)

----------------------------------------------------------------------------
(* get_models.py: save_result, one action per statement that can fail *)

\* what joblib.load finds in model_dir/params.pkl
PklForms == {"missing", "corrupt", "short_tuple", "tuple", "dict", "dict_nopolicy"}
HoldsPolicy(form) == form \in {"tuple", "dict"}

\* lines 107-118: os.makedirs(out_dir, exist_ok=True)
SaveMakedirs ==
    /\ pc = "makedirs"
    /\ pc' = "copyfile"
    /\ UNCHANGED <<entry, err, genvars, fs, fs0, pkl, call_no, first, travvars>>

\* line 118 when the directory cannot be created
SaveMakedirsRaise ==
    /\ pc = "makedirs"
    /\ err' = "OSError"
    /\ pc' = "raised"
    /\ UNCHANGED <<entry, genvars, fs, fs0, pkl, call_no, first, travvars>>

\* lines 121-123: shutil.copyfile writes out_dir/params.pkl
SaveCopy ==
    /\ pc = "copyfile"
    /\ pkl.form # "missing"
    /\ fs' = [fs EXCEPT ![PklFile] = "complete"]
    /\ pc' = "load"
    /\ UNCHANGED <<entry, err, genvars, fs0, pkl, call_no, first, travvars>>

\* line 123 without a source file: copyfile opens the source first
SaveCopyMissing ==
    /\ pc = "copyfile"
    /\ pkl.form = "missing"
    /\ err' = "FileNotFoundError"
    /\ pc' = "raised"
    /\ UNCHANGED <<entry, genvars, fs, fs0, pkl, call_no, first, travvars>>

\* line 123 when the copy cannot be opened, or is cut short while written
SaveCopyRaise ==
    /\ pc = "copyfile"
    /\ pkl.form # "missing"
    /\ \E opened \in BOOLEAN :
          fs' = IF opened THEN [fs EXCEPT ![PklFile] = "partial"] ELSE fs
    /\ err' = "OSError"
    /\ pc' = "raised"
    /\ UNCHANGED <<entry, genvars, fs0, pkl, call_no, first, travvars>>

\* line 129: joblib.load
SaveLoad ==
    /\ pc = "load"
    /\ pkl.form # "corrupt"
    /\ pc' = "select"
    /\ UNCHANGED <<entry, err, genvars, fs, fs0, pkl, call_no, first, travvars>>

\* line 129 on a file that is no pickle
SaveLoadRaise ==
    /\ pc = "load"
    /\ pkl.form = "corrupt"
    /\ err' = "UnpicklingError"
    /\ pc' = "raised"
    /\ UNCHANGED <<entry, genvars, fs, fs0, pkl, call_no, first, travvars>>

\* lines 132-137: the second element of a tuple, else the 'policy' entry
SaveSelect ==
    /\ pc = "select"
    /\ HoldsPolicy(pkl.form)
    /\ policy' = pkl.policy
    /\ pc' = "session"
    /\ UNCHANGED <<entry, err, output_path, trainable_shapes, n_layers, n, n_weight,
                   n_bias, weights, biases, outputs, structure, for_loops,
                   controller_eval, source, result, fs, fs0, pkl, call_no, first,
                   travvars>>

\* line 137 on a tuple of fewer than two elements or a dict without 'policy'
SaveSelectRaise ==
    /\ pc = "select"
    /\ ~HoldsPolicy(pkl.form)
    /\ err' = IF pkl.form = "short_tuple" THEN "TypeError" ELSE "KeyError"
    /\ pc' = "raised"
    /\ UNCHANGED <<entry, genvars, fs, fs0, pkl, call_no, first, travvars>>

\* lines 142-144: mlp.generate(policy, sess, out_dir/network_evaluate.c)
SaveCallGenerate ==
    /\ pc = "session"
    /\ output_path' = OutFile
    /\ pc' = "extract"
    /\ UNCHANGED <<entry, err, policy, trainable_shapes, n_layers, n, n_weight,
                   n_bias, weights, biases, outputs, structure, for_loops,
                   controller_eval, source, result, fs, fs0, pkl, call_no, first,
                   travvars>>

\* line 145, after generate returned
SavePrint ==
    /\ pc = "print"
    /\ pc' = "done"
    /\ UNCHANGED <<entry, err, genvars, fs, fs0, pkl, call_no, first, travvars>>

InitSave ==
    /\ entry = "save_result"
    /\ pc = "makedirs"
    /\ err = ""
    /\ pkl \in {[form |-> f, policy |-> OpaquePolicy] : f \in {g \in PklForms : ~HoldsPolicy(g)}}
               \cup {[form |-> f, policy |-> q] :
                        f \in {g \in PklForms : HoldsPolicy(g)},
                        q \in TFPolicies(MaxSaveTensors) \cup FlaxPolicies
                              \cup {OpaquePolicy}}
    /\ policy = OpaquePolicy
    /\ output_path = ""
    /\ fs0 \in [FileNames -> {"absent", "old"}]
    /\ fs = fs0
    /\ call_no = 1
    /\ first = <<>>
    /\ NoLocals
    /\ NoTraverse

NextSave ==
    \/ SaveMakedirs \/ SaveMakedirsRaise \/ SaveCopy \/ SaveCopyMissing
    \/ SaveCopyRaise \/ SaveLoad \/ SaveLoadRaise \/ SaveSelect \/ SaveSelectRaise
    \/ SaveCallGenerate \/ SavePrint
    \/ GenExtractFlax \/ GenExtractTF \/ GenExtractRaise
    \/ GenInit \/ GenLayer \/ GenStructure \/ GenForLoops \/ GenControllerEval
    \/ GenAssemble \/ GenOpen \/ GenOpenRaise \/ GenWrite \/ GenWriteRaise
    \/ GenReturn

SpecSave == InitSave /\ [][NextSave]_vars

\* C7: whenever a conversion by save_result has failed, the output directory
\* holds no file that was not there before the call, and network_evaluate.c is
\* opened for writing only once the whole text is assembled.
C7_NoNewFileOnFailure ==
    entry = "save_result" =>
        /\ pc = "raised" => \A f \in FileNames : fs0[f] = "absent" => fs[f] = "absent"
        /\ fs[OutFile] # fs0[OutFile] =>
              source = Assemble(structure, outputs, weights, biases, controller_eval)

----------------------------------------------------------------------------
(* generate called again and again in one process.  The variables keep what  *)
(* the call before left in them: a call starts from fresh values only where *)
(* the code assigns them.                                                   *)

RepeatShapes == {<<NumControls>>, <<NumControls, NumControls>>}
RepeatPolicies == {TFPolicy(l) : l \in SeqsUpTo(RepeatShapes, MaxRepeatTensors)}

\* line 17: the next call, on any policy, with no output path
GenerateAgain ==
    /\ pc = "done"
    /\ call_no < MaxCalls
    /\ call_no' = call_no + 1
    /\ policy' \in RepeatPolicies
    /\ result' = <<>>
    /\ pc' = "extract"
    /\ UNCHANGED <<entry, err, output_path, trainable_shapes, n_layers, n, n_weight,
                   n_bias, weights, biases, outputs, structure, for_loops,
                   controller_eval, source, fs, fs0, pkl, first, travvars>>

InitRepeat ==
    /\ entry = "generate"
    /\ pc = "extract"
    /\ err = ""
    /\ policy \in RepeatPolicies
    /\ output_path = ""
    /\ fs0 = [f \in FileNames |-> "absent"]
    /\ fs = fs0
    /\ pkl = NoPkl
    /\ call_no = 1
    /\ first = <<>>
    /\ NoLocals
    /\ NoTraverse

NextRepeat ==
    \/ GenExtractTF \/ GenInit \/ GenLayer \/ GenStructure \/ GenForLoops
    \/ GenControllerEval \/ GenAssemble \/ GenNoPath \/ GenReturn
    \/ GenerateAgain

SpecRepeat == InitRepeat /\ [][NextRepeat]_vars

\* C8: a call of generate on the tensor list of the first call returns the
\* text the first call returned, whatever calls came in between.
C8_Deterministic ==
    (pc = "done" /\ first # <<>> /\ policy = first[1].policy) =>
        result = first[1].text

\* the third call, on the first call's tensor list and with a weight row in
\* its text, has returned
C8_Witness ==
    /\ pc = "done"
    /\ call_no = 3
    /\ first # <<>>
    /\ policy = first[1].policy
    /\ Len(Tokens(result, "row")) >= 1

----------------------------------------------------------------------------
(* get_models.py: traverse_root over a finite directory tree.  Directory 0  *)
(* is root_dir; tree[d] is the parent of directory d > 0.                   *)

Dirs == 0..MaxDirs
Trees == {t \in [1..MaxDirs -> Dirs] : \A d \in 1..MaxDirs : t[d] < d}

\* subdir(d): the directories directly in d (lines 20-28)
subdir(d) == {c \in 1..MaxDirs : tree[c] = d}

Top == stack[Len(stack)]
Pop == SubSeq(stack, 1, Len(stack) - 1)
\* the running call of traverse_root goes on to its next subdirectory
Advance(d) == [stack EXCEPT ![Len(stack)].todo = @ \ {d}]

\* lines 194-202: a subdirectory with params.pkl is handed to save_result,
\* which returns
TravSave ==
    /\ pc = "traverse"
    /\ stack # <<>>
    /\ \E d \in Top.todo :
          /\ d \in has_pkl
          /\ calls' = Append(calls, d)
          /\ stack' = Advance(d)
    /\ UNCHANGED <<entry, pc, err, genvars, fs, fs0, pkl, call_no, first, tree, has_pkl>>

\* line 202 when save_result raises: the exception ends every running call
TravSaveRaise ==
    /\ pc = "traverse"
    /\ stack # <<>>
    /\ \E d \in Top.todo :
          /\ d \in has_pkl
          /\ calls' = Append(calls, d)
    /\ stack' = <<>>
    /\ err' = "Exception"
    /\ pc' = "raised"
    /\ UNCHANGED <<entry, genvars, fs, fs0, pkl, call_no, first, tree, has_pkl>>

\* lines 203-204 without the else: every subdirectory is searched in turn
TravDescendAlways ==
    /\ pc = "traverse"
    /\ stack # <<>>
    /\ \E d \in Top.todo :
          stack' = Append(Advance(d), [dir |-> d, todo |-> subdir(d)])
    /\ UNCHANGED <<entry, pc, err, genvars, fs, fs0, pkl, call_no, first, tree,
                   has_pkl, calls>>

\* lines 203-204: a subdirectory without params.pkl is searched in turn
TravDescend ==
    /\ pc = "traverse"
    /\ stack # <<>>
    /\ \E d \in Top.todo :
          /\ d \notin has_pkl
          /\ stack' = Append(Advance(d), [dir |-> d, todo |-> subdir(d)])
    /\ UNCHANGED <<entry, pc, err, genvars, fs, fs0, pkl, call_no, first, tree,
                   has_pkl, calls>>

\* the for loop of line 194 is over: this call of traverse_root returns
TravReturn ==
    /\ pc = "traverse"
    /\ stack # <<>>
    /\ Top.todo = {}
    /\ stack' = Pop
    /\ pc' = IF Len(stack) = 1 THEN "done" ELSE "traverse"
    /\ UNCHANGED <<entry, err, genvars, fs, fs0, pkl, call_no, first, tree, has_pkl,
                   calls>>

InitTraverse ==
    /\ entry = "traverse_root"
    /\ pc = "traverse"
    /\ err = ""
    /\ tree \in Trees
    /\ has_pkl \in SUBSET Dirs
    /\ stack = <<[dir |-> 0, todo |-> subdir(0)]>>
    /\ calls = <<>>
    /\ policy = OpaquePolicy
    /\ output_path = ""
    /\ fs0 = [f \in FileNames |-> "absent"]
    /\ fs = fs0
    /\ pkl = NoPkl
    /\ call_no = 1
    /\ first = <<>>
    /\ NoLocals

NextTraverse == TravSave \/ TravSaveRaise \/ TravDescend \/ TravReturn

SpecTraverse == InitTraverse /\ [][NextTraverse]_vars

\* how often save_result was called for d
Times(d) == Cardinality({i \in 1..Len(calls) : calls[i] = d})

\* the directories between d and root_dir, d's parent first, root_dir left out
RECURSIVE Above(_)
Above(d) == IF d = 0 \/ tree[d] = 0 THEN {} ELSE {tree[d]} \cup Above(tree[d])

Reached(d) == d # 0 /\ d \in has_pkl /\ Above(d) \cap has_pkl = {}

----------------------------------------------------------------------------
(* The arrays of the text against one another *)

\* the first dimension the text declares for the structure table
DeclaredRows(text) == Tokens(text, "structure_decl")[1].dim

\* the indices of the arrays of one kind in the text
Indices(text, kind) == {Tokens(text, kind)[i].idx : i \in 1..Len(Tokens(text, kind))}

\* C11: for every alternating weight/bias tensor list generate accepts (read
\* here for the lists of weight/bias pairs that end in the std pair), the
\* declared first dimension of the structure table equals the number of rows
\* written into it, which equals the number of weight arrays, of bias arrays
\* and of output buffers, and every weight array has a bias array and an
\* output buffer of its index.
C11_TableMatchesArrays ==
    (Returned /\ ValidList(trainable_shapes)) =>
        /\ DeclaredRows(result) = Len(Tokens(result, "row"))
        /\ Len(Tokens(result, "row")) = Len(Tokens(result, "weight"))
        /\ Len(Tokens(result, "weight")) = Len(Tokens(result, "bias"))
        /\ Len(Tokens(result, "bias")) = Len(Tokens(result, "output"))
        /\ Indices(result, "weight") \subseteq Indices(result, "bias")
        /\ Indices(result, "weight") \subseteq Indices(result, "output")

====
